---------------------------- MODULE Spec2Model ----------------------------
(***************************************************************************)
(* PumpGuard AI: the offline trainer (train_model.py) and the Streamlit    *)
(* server script (app.py), composed through the three artifact files the   *)
(* trainer writes and the server loads.                                    *)
(*                                                                         *)
(* Text is a sequence of one-character strings, so that lower(), upper(),  *)
(* == and `in` are computed character by character.  A numeric cell is     *)
(* <<>> (NaN) or <<n, d>> (the number n/d, d \in {1, 2}: a median of an    *)
(* even count of integers is a half).                                      *)
(***************************************************************************)
EXTENDS Integers, Sequences, FiniteSets, TLC

VARIABLES
    cols,      \* trainer: df.columns.tolist(), a sequence of column names
    csv,       \* trainer: the rows of the CSV, by the role of the column read
    run,       \* trainer: number of the training run in progress
    tpc,       \* trainer: position inside train()
    detected,  \* trainer: vib, temp, curr, label of load_and_prepare
    X,         \* trainer: the feature table returned by load_and_prepare
    y,         \* trainer: the label series returned by load_and_prepare
    terr,      \* trainer: the exception that ended train(), if any
    fitted,    \* trainer: model.classes_ of the fitted classifier
    disk,      \* the output directory: file name -> content
    apiKey,    \* server: whether GEMINI_API_KEY is set in the environment
    history,   \* server: st.session_state.history
    page,      \* server: what the last run of the script did and rendered
    offer,     \* server: the payload of the Download CSV button on the page
    exported   \* server: the file delivered by the step just taken

trainerVars == <<cols, csv, run, tpc, detected, X, y, terr, fitted>>
serverVars == <<apiKey, history, page, offer, exported>>
vars == <<cols, csv, run, tpc, detected, X, y, terr, fitted, disk,
          apiKey, history, page, offer, exported>>

(***************************************************************************)
(* Bounds of the model.                                                    *)
(***************************************************************************)
MaxCols == 3
MaxRows == 2
MaxRuns == 2
MaxHist == 2

(***************************************************************************)
(* Text.                                                                   *)
(***************************************************************************)
UpperAlpha == <<"A","B","C","D","E","F","G","H","I","J","K","L","M",
                "N","O","P","Q","R","S","T","U","V","W","X","Y","Z">>
LowerAlpha == <<"a","b","c","d","e","f","g","h","i","j","k","l","m",
                "n","o","p","q","r","s","t","u","v","w","x","y","z">>

Others == {"_", " ", ".", "0", "1", "2", "3", "4", "5", "6", "7", "8", "9"}

Chars == {UpperAlpha[i] : i \in DOMAIN UpperAlpha}
         \cup {LowerAlpha[i] : i \in DOMAIN LowerAlpha} \cup Others

\* The lower-case and upper-case forms of every character
LowerMap ==
    [ch \in Chars |->
        IF \E i \in DOMAIN UpperAlpha : UpperAlpha[i] = ch
        THEN LowerAlpha[CHOOSE i \in DOMAIN UpperAlpha : UpperAlpha[i] = ch]
        ELSE ch]

UpperMap ==
    [ch \in Chars |->
        IF \E i \in DOMAIN LowerAlpha : LowerAlpha[i] = ch
        THEN UpperAlpha[CHOOSE i \in DOMAIN LowerAlpha : LowerAlpha[i] = ch]
        ELSE ch]

LowerCh(ch) == LowerMap[ch]

UpperCh(ch) == UpperMap[ch]

\* str.lower()
Lower(s) == [i \in DOMAIN s |-> LowerCh(s[i])]

\* str.upper()
Upper(s) == [i \in DOMAIN s |-> UpperCh(s[i])]

\* a in b, for two strings
Contains(a, b) ==
    \E k \in 0..(Len(b) - Len(a)) : \A i \in 1..Len(a) : b[k + i] = a[i]

S_vibration == <<"v","i","b","r","a","t","i","o","n">>
S_vib == <<"v","i","b">>
S_vibration_mm_s == <<"v","i","b","r","a","t","i","o","n","_","m","m","_","s">>
S_temperature == <<"t","e","m","p","e","r","a","t","u","r","e">>
S_temp == <<"t","e","m","p">>
S_temp_c == <<"t","e","m","p","_","c">>
S_current == <<"c","u","r","r","e","n","t">>
S_motor_current == <<"m","o","t","o","r","_","c","u","r","r","e","n","t">>
S_amps == <<"a","m","p","s">>
S_label == <<"l","a","b","e","l">>
S_status == <<"s","t","a","t","u","s">>
S_health == <<"h","e","a","l","t","h">>
S_class == <<"c","l","a","s","s">>

COMMON_VIB == <<S_vibration, S_vib, S_vibration_mm_s>>
COMMON_TEMP == <<S_temperature, S_temp, S_temp_c>>
COMMON_CURR == <<S_current, S_motor_current, S_amps>>
COMMON_LABEL == <<S_label, S_status, S_health, S_class>>

\* The value None
None == <<>>

(***************************************************************************)
(* detect_column                                                           *)
(***************************************************************************)
\* One pass of detect_column: the nested loops `for c in candidates: for col
\* in cols`, from candidate ci and column ki on.  The index of the column
\* returned, 0 when the loops end without returning.
RECURSIVE Scan(_, _, _, _, _)
Scan(cs, candidates, exact, ci, ki) ==
    IF ci > Len(candidates) THEN 0
    ELSE IF ki > Len(cs) THEN Scan(cs, candidates, exact, ci + 1, 1)
    ELSE IF (IF exact
             THEN Lower(candidates[ci]) = Lower(cs[ki])
             ELSE Contains(Lower(candidates[ci]), Lower(cs[ki])))
         THEN ki
         ELSE Scan(cs, candidates, exact, ci, ki + 1)

\* A detector with the substring pass alone.
detect_column_onepass(cs, candidates) ==
    LET k == Scan(cs, candidates, FALSE, 1, 1)
    IN  IF k # 0 THEN cs[k] ELSE None

detect_column(cs, candidates) ==
    LET k1 == Scan(cs, candidates, TRUE, 1, 1)
    IN  IF k1 # 0 THEN cs[k1]
        ELSE LET k2 == Scan(cs, candidates, FALSE, 1, 1)
             IN  IF k2 # 0 THEN cs[k2] ELSE None

(***************************************************************************)
(* load_and_prepare                                                        *)
(***************************************************************************)
NaN == <<>>

Num(n) == <<n, 1>>

\* cell > k, with NaN > k False
Gt(cell, k) == cell # NaN /\ cell[1] > k * cell[2]

RECURSIVE Insert(_, _)
Insert(x, s) ==
    IF s = <<>> THEN <<x>>
    ELSE IF x <= Head(s) THEN <<x>> \o s
    ELSE <<Head(s)>> \o Insert(x, Tail(s))

RECURSIVE Sort(_)
Sort(s) == IF s = <<>> THEN <<>> ELSE Insert(Head(s), Sort(Tail(s)))

RECURSIVE NonNaN(_)
NonNaN(cells) ==
    IF cells = <<>> THEN <<>>
    ELSE IF Head(cells) = NaN THEN NonNaN(Tail(cells))
    ELSE <<Head(cells)[1]>> \o NonNaN(Tail(cells))

\* DataFrame.median() of one column of integer cells: NaN is skipped, the
\* median of no value is NaN, of an even count the mean of the middle two.
Median(cells) ==
    LET s == Sort(NonNaN(cells))
        n == Len(s)
    IN  IF n = 0 THEN NaN
        ELSE IF n % 2 = 1 THEN Num(s[(n + 1) \div 2])
        ELSE LET a == s[n \div 2]
                 b == s[n \div 2 + 1]
             IN  IF (a + b) % 2 = 0 THEN Num((a + b) \div 2) ELSE <<a + b, 2>>

Column(rows, f) == [i \in DOMAIN rows |-> rows[i][f]]

FillCell(cell, med) == IF cell = NaN THEN med ELSE cell

\* X = df[[vib, temp, curr]]; X.columns = [...]; X = X.fillna(X.median())
Impute(rows) ==
    [i \in DOMAIN rows |->
        [vibration   |-> FillCell(rows[i].vibration,
                                  Median(Column(rows, "vibration"))),
         temperature |-> FillCell(rows[i].temperature,
                                  Median(Column(rows, "temperature"))),
         current     |-> FillCell(rows[i].current,
                                  Median(Column(rows, "current")))]]

S_OK == <<"O","K">>
S_GOOD == <<"G","O","O","D">>
S_BAD == <<"B","A","D">>
S_FAIL == <<"F","A","I","L">>
S_HEALTHY == <<"H","E","A","L","T","H","Y">>
S_WARNING == <<"W","A","R","N","I","N","G">>
S_CRITICAL == <<"C","R","I","T","I","C","A","L">>
VibThreshold == 6
TempThreshold == 70
CurrThreshold == 12

RowScore(r) ==
    (IF Gt(r.vibration, VibThreshold) THEN 1 ELSE 0)
    + (IF Gt(r.temperature, TempThreshold) THEN 1 ELSE 0)
    + (IF Gt(r.current, CurrThreshold) THEN 1 ELSE 0)

LabelOfScore(score) ==
    IF score >= 2 THEN S_CRITICAL
    ELSE IF score = 1 THEN S_WARNING
    ELSE S_HEALTHY

RECURSIVE ScoreThrough(_, _)
ScoreThrough(Xs, i) == IF i = 0 THEN 0 ELSE ScoreThrough(Xs, i - 1) + RowScore(Xs[i])

\* A synthesizer whose score is set to 0 before the loop, not in it.
SynthLabels_carry(Xs) == [i \in DOMAIN Xs |-> LabelOfScore(ScoreThrough(Xs, i))]

\* The loop of lines 45-54: score = 0 at the top of every iteration.
SynthLabels(Xs) == [i \in DOMAIN Xs |-> LabelOfScore(RowScore(Xs[i]))]

\* y.replace({"OK": "HEALTHY", "GOOD": "HEALTHY", "BAD": "CRITICAL", "FAIL": "CRITICAL"})
Replace(s) ==
    IF s = S_OK \/ s = S_GOOD THEN S_HEALTHY
    ELSE IF s = S_BAD \/ s = S_FAIL THEN S_CRITICAL
    ELSE s

\* df[label].astype(str).str.upper(), then the replace
Canonicalize(rows) == [i \in DOMAIN rows |-> Replace(Upper(rows[i].label))]

NoError == [type |-> "none", origin |-> "none", about |-> "none", names |-> {}]

\* ValueError("Could not detect vibration/temp/current columns"): the one
\* message, whichever of the three is missing.
ConfigError ==
    [type |-> "ValueError", origin |-> "load_and_prepare", about |-> "columns",
     names |-> {"vibration", "temperature", "current"}]

load_and_prepare(cs, rows) ==
    LET vib == detect_column(cs, COMMON_VIB)
        temp == detect_column(cs, COMMON_TEMP)
        curr == detect_column(cs, COMMON_CURR)
        label == detect_column(cs, COMMON_LABEL)
        found == [vibration |-> vib, temperature |-> temp,
                  current |-> curr, label |-> label]
    IN  IF vib = None \/ temp = None \/ curr = None
        THEN [err |-> ConfigError, detected |-> found, X |-> <<>>, y |-> <<>>]
        ELSE [err |-> NoError,
              detected |-> found,
              X |-> Impute(rows),
              y |-> IF label = None
                    THEN SynthLabels(Impute(rows))
                    ELSE Canonicalize(rows)]

(***************************************************************************)
(* train                                                                   *)
(***************************************************************************)
\* label_map = {"HEALTHY": 0, "WARNING": 1, "CRITICAL": 2}, in dict order
label_map == <<<<S_HEALTHY, 0>>, <<S_WARNING, 1>>, <<S_CRITICAL, 2>>>>

\* Series.map(dict) of one value: a value that is no key maps to NaN
MapCell(m, k) ==
    IF \E i \in DOMAIN m : m[i][1] = k
    THEN <<m[CHOOSE i \in DOMAIN m : m[i][1] = k][2]>>
    ELSE NaN

\* y_enc = y.map(label_map)
Encode(ys) == [i \in DOMAIN ys |-> MapCell(label_map, ys[i])]

Classes(yenc) == {yenc[i] : i \in DOMAIN yenc}

CountOf(yenc, c) == Cardinality({i \in DOMAIN yenc : yenc[i] = c})

\* test_size = 0.2: n_test = ceil(0.2 * n), n_train = n - n_test
NTest(n) == (n + 4) \div 5

\* train_test_split(..., test_size=0.2, stratify=y_enc) raises ValueError:
\* an empty train set, NaN in the stratification labels, a class with
\* fewer than 2 members, or fewer train or test samples than classes.
SplitRaises(yenc) ==
    LET n == Len(yenc)
    IN  \/ n - NTest(n) = 0
        \/ NaN \in Classes(yenc)
        \/ \E c \in Classes(yenc) : CountOf(yenc, c) < 2
        \/ n - NTest(n) < Cardinality(Classes(yenc))
        \/ NTest(n) < Cardinality(Classes(yenc))

SplitError ==
    [type |-> "ValueError", origin |-> "train_test_split", about |-> "split",
     names |-> {}]

WriteError == [type |-> "OSError", origin |-> "dump", about |-> "write", names |-> {}]

RECURSIVE SortedSeq(_)
SortedSeq(S) ==
    IF S = {} THEN <<>>
    ELSE LET m == CHOOSE a \in S : \A b \in S : a <= b
         IN  <<m>> \o SortedSeq(S \ {m})

\* model.classes_ after model.fit(X_train_s, y_train): the sorted distinct
\* labels of y_train; a stratified split leaves every class in y_train.
FitClasses(yenc) == SortedSeq({c[1] : c \in Classes(yenc)})

MODEL_PATH == "pump_model.pkl"
SCALER_PATH == "scaler.pkl"
META_PATH == "feature_meta.json"
Artifacts == {MODEL_PATH, SCALER_PATH, META_PATH}

Absent == [kind |-> "absent", run |-> 0, classes |-> <<>>, label_map |-> <<>>]

\* What an interrupted write leaves: the file opened for writing, not whole.
Partial(r) == [kind |-> "partial", run |-> r, classes |-> <<>>, label_map |-> <<>>]

ModelFile(r, cl) == [kind |-> "ok", run |-> r, classes |-> cl, label_map |-> <<>>]
ScalerFile(r) == [kind |-> "ok", run |-> r, classes |-> <<>>, label_map |-> <<>>]
MetaFile(r) == [kind |-> "ok", run |-> r, classes |-> <<>>, label_map |-> label_map]

NotDetected == [vibration |-> None, temperature |-> None, current |-> None, label |-> None]

\* os.makedirs(out_dir, exist_ok=True); X, y = load_and_prepare(csv_path)
TrainLoad ==
    /\ tpc = "start"
    /\ LET r == load_and_prepare(cols, csv)
       IN  /\ terr' = r.err
           /\ detected' = r.detected
           /\ X' = r.X
           /\ y' = r.y
           /\ tpc' = IF r.err = NoError THEN "prepared" ELSE "failed"
    /\ UNCHANGED <<cols, csv, run, fitted, disk>>
    /\ UNCHANGED serverVars

\* lines 70-85: encode, split, scale, fit, report
TrainFit ==
    /\ tpc = "prepared"
    /\ IF SplitRaises(Encode(y))
       THEN /\ terr' = SplitError
            /\ tpc' = "failed"
            /\ fitted' = fitted
       ELSE /\ terr' = terr
            /\ tpc' = "fitted"
            /\ fitted' = FitClasses(Encode(y))
    /\ UNCHANGED <<cols, csv, run, detected, X, y, disk>>
    /\ UNCHANGED serverVars

\* A write that raises: before the file is opened, or after.
FailedWrite(f) ==
    /\ \E opened \in BOOLEAN :
          disk' = IF opened THEN [disk EXCEPT ![f] = Partial(run)] ELSE disk
    /\ terr' = WriteError
    /\ tpc' = "failed"

\* joblib.dump(model, f"{out_dir}/pump_model.pkl")
DumpModel ==
    /\ tpc = "fitted"
    /\ \/ /\ disk' = [disk EXCEPT ![MODEL_PATH] = ModelFile(run, fitted)]
          /\ tpc' = "model_written"
          /\ terr' = terr
       \/ FailedWrite(MODEL_PATH)
    /\ UNCHANGED <<cols, csv, run, detected, X, y, fitted>>
    /\ UNCHANGED serverVars

\* joblib.dump(scaler, f"{out_dir}/scaler.pkl")
DumpScaler ==
    /\ tpc = "model_written"
    /\ \/ /\ disk' = [disk EXCEPT ![SCALER_PATH] = ScalerFile(run)]
          /\ tpc' = "scaler_written"
          /\ terr' = terr
       \/ FailedWrite(SCALER_PATH)
    /\ UNCHANGED <<cols, csv, run, detected, X, y, fitted>>
    /\ UNCHANGED serverVars

\* json.dump({...}, open(f"{out_dir}/feature_meta.json", "w"), indent=2)
DumpMeta ==
    /\ tpc = "scaler_written"
    /\ \/ /\ disk' = [disk EXCEPT ![META_PATH] = MetaFile(run)]
          /\ tpc' = "done"
          /\ terr' = terr
       \/ FailedWrite(META_PATH)
    /\ UNCHANGED <<cols, csv, run, detected, X, y, fitted>>
    /\ UNCHANGED serverVars

\* python train_model.py --csv ... once more, on the same CSV and directory
TrainAgain ==
    /\ tpc \in {"done", "failed"}
    /\ run < MaxRuns
    /\ run' = run + 1
    /\ tpc' = "start"
    /\ detected' = NotDetected
    /\ X' = <<>>
    /\ y' = <<>>
    /\ terr' = NoError
    /\ fitted' = <<>>
    /\ UNCHANGED <<cols, csv, disk>>
    /\ UNCHANGED serverVars

TrainerNext ==
    \/ TrainLoad
    \/ TrainFit
    \/ DumpModel
    \/ DumpScaler
    \/ DumpMeta
    \/ TrainAgain

(***************************************************************************)
(* app.py: startup                                                         *)
(***************************************************************************)
\* A check of the model file alone.
StartupCheck_model_only(d) == d[MODEL_PATH].kind # "absent"

\* os.path.exists(MODEL_PATH) and os.path.exists(SCALER_PATH) and
\* os.path.exists(META_PATH)
StartupCheck(d) ==
    d[MODEL_PATH].kind # "absent" /\ d[SCALER_PATH].kind # "absent"
    /\ d[META_PATH].kind # "absent"

\* The files lines 21-23 load before one of them, not whole, makes its
\* loader raise.
LoadedFiles(d) ==
    IF d[MODEL_PATH].kind # "ok" THEN {}
    ELSE IF d[SCALER_PATH].kind # "ok" THEN {MODEL_PATH}
    ELSE IF d[META_PATH].kind # "ok" THEN {MODEL_PATH, SCALER_PATH}
    ELSE Artifacts

\* inv_label_map = {v: k for k, v in label_map.items()}, looked up at idx
inv_label_map(m, idx) == m[CHOOSE i \in DOMAIN m : m[i][2] = idx][1]

(***************************************************************************)
(* app.py: generate_hypothesis                                             *)
(***************************************************************************)
Returned(text) == [raised |-> FALSE, text |-> text]
Raised(exc) == [raised |-> TRUE, text |-> exc]

FallbackNoKey == "Gemini API key missing. Fallback hypothesis: ..."
FallbackError == "Gemini Error: {e} Fallback hypothesis: ..."
ResponseText == "response.text"
PartText == "response.candidates[0].content.parts[0].text"
StrResponse == "str(response)"

\* What the import and the call of the service can do
ServiceOutcomes ==
    {"import_fails", "call_raises", "text", "text_raises",
     "candidate_text", "candidate_broken", "no_text"}

\* Lines 61-76, the body of the try
HypothesisBody(svc) ==
    IF svc = "import_fails" THEN Raised("ImportError")
    ELSE IF svc = "call_raises" THEN Raised("Exception")
    ELSE IF svc = "text_raises" THEN Raised("ValueError")
    ELSE IF svc = "text" THEN Returned(ResponseText)
    ELSE IF svc = "candidate_text" THEN Returned(PartText)
    ELSE Returned(StrResponse)

HypothesisTexts == {FallbackNoKey, FallbackError, ResponseText, PartText, StrResponse}

\* A generator without the try/except around the service call.
generate_hypothesis_unguarded(key, svc) ==
    IF ~ key THEN Returned(FallbackNoKey) ELSE HypothesisBody(svc)

generate_hypothesis(key, svc) ==
    IF ~ key THEN Returned(FallbackNoKey)
    ELSE IF HypothesisBody(svc).raised THEN Returned(FallbackError)
    ELSE HypothesisBody(svc)

(***************************************************************************)
(* app.py: history                                                         *)
(***************************************************************************)
HistoryColumns ==
    <<"timestamp", "vibration", "temperature", "current", "status", "risk",
      "hypothesis">>

Record(ts, v, t, c, status, risk, hypothesis) ==
    [timestamp |-> ts, vibration |-> v, temperature |-> t, current |-> c,
     status |-> status, risk |-> risk, hypothesis |-> hypothesis]

\* An add_history that puts the new record first.
add_history_front(h, rec) == <<rec>> \o h

add_history(h, rec) == Append(h, rec)

\* pd.to_datetime(ts, unit="s")
ToDatetime(ts) == [epoch_s |-> ts]

\* history_df(): a new frame; the records of the history are not touched
history_df(h) ==
    IF h = <<>>
    THEN [columns |-> HistoryColumns, rows |-> <<>>]
    ELSE [columns |-> Append(HistoryColumns, "time"),
          rows |-> [i \in DOMAIN h |->
                       [timestamp |-> h[i].timestamp,
                        vibration |-> h[i].vibration,
                        temperature |-> h[i].temperature,
                        current |-> h[i].current,
                        status |-> h[i].status,
                        risk |-> h[i].risk,
                        hypothesis |-> h[i].hypothesis,
                        time |-> ToDatetime(h[i].timestamp)]]]

clear_history(h) == <<>>

\* df.to_csv(index=False): the header row, then each row in column order
to_csv(df) ==
    [header |-> df.columns,
     rows |-> [i \in DOMAIN df.rows |->
                  [j \in DOMAIN df.columns |-> df.rows[i][df.columns[j]]]]]

(***************************************************************************)
(* app.py: one run of the script                                           *)
(***************************************************************************)
RECURSIVE SumSeq(_)
SumSeq(p) == IF p = <<>> THEN 0 ELSE Head(p) + SumSeq(Tail(p))

MaxOf(p) == CHOOSE m \in {p[i] : i \in DOMAIN p} : \A i \in DOMAIN p : p[i] <= m

\* int(np.argmax(proba)): the first position of the maximum, from 0
ArgMax(p) == (CHOOSE i \in DOMAIN p :
                 /\ p[i] = MaxOf(p)
                 /\ \A j \in DOMAIN p : p[j] = MaxOf(p) => i <= j) - 1

\* float(proba[2]) if len(proba) > 2 else float(max(proba))
Risk(p) == IF Len(p) > 2 THEN p[3] ELSE MaxOf(p)

\* Lines 147-151
Recommendations(v, t, c) ==
    LET recs == (IF v > VibThreshold THEN <<"bearings">> ELSE <<>>)
                \o (IF t > TempThreshold THEN <<"cooling">> ELSE <<>>)
                \o (IF c > CurrThreshold THEN <<"motor">> ELSE <<>>)
    IN  IF recs = <<>> THEN <<"none">> ELSE recs

\* The vectors predict_proba returns for a classifier of k classes, one
\* entry per class of model.classes_, here with all the mass on one class.
ProbaVectors(k) == {p \in [1..k -> 0..1] : SumSeq(p) = 1}

Inputs == {<<3, 35, 6>>, <<8, 75, 13>>}

Times == {100}

NothingShown == <<>>

Stopped(op) == [op |-> op, outcome |-> "stopped", loaded |-> {}, shown |-> NothingShown]

Crashed(op, files) ==
    [op |-> op, outcome |-> "crashed", loaded |-> files, shown |-> NothingShown]

Rendered(op, shown) ==
    [op |-> op, outcome |-> "rendered", loaded |-> Artifacts, shown |-> shown]

\* The script from line 17 to its end.  op is the widget that caused the
\* run; in, proba, svc and ts are read by the analysis block alone.
Script(op, in, proba, svc, ts) ==
    IF ~ StartupCheck(disk)
    THEN /\ page' = Stopped(op)
         /\ history' = history
         /\ offer' = <<>>
    ELSE IF LoadedFiles(disk) # Artifacts
    THEN /\ page' = Crashed(op, LoadedFiles(disk))
         /\ history' = history
         /\ offer' = <<>>
    ELSE IF op = "analyze"
    THEN LET idx == ArgMax(proba)
             status == inv_label_map(disk[META_PATH].label_map, idx)
             risk == Risk(proba)
             hyp == generate_hypothesis(apiKey, svc)
             rec == Record(ts, in[1], in[2], in[3], status, risk, hyp.text)
             df == history_df(add_history(history, rec))
         IN  IF hyp.raised
             THEN /\ page' = Crashed(op, Artifacts)
                  /\ history' = history
                  /\ offer' = <<>>
             ELSE /\ page' = Rendered(op,
                                <<[inputs |-> in,
                                   classes |-> disk[MODEL_PATH].classes,
                                   proba |-> proba, status |-> status,
                                   risk |-> risk, hypothesis |-> hyp.text,
                                   recs |-> Recommendations(in[1], in[2], in[3])]>>)
                  /\ history' = add_history(history, rec)
                  /\ offer' = IF df.rows # <<>> THEN <<to_csv(df)>> ELSE <<>>
    ELSE LET df == history_df(history)
         IN  /\ page' = Rendered(op, NothingShown)
             /\ history' = IF op = "clear" THEN clear_history(history) ELSE history
             /\ offer' = IF df.rows # <<>> THEN <<to_csv(df)>> ELSE <<>>

NoProba == <<1>>

\* The Analyze button
Analyze ==
    /\ Len(history) < MaxHist
    /\ \E in \in Inputs, svc \in ServiceOutcomes, ts \in Times :
          /\ \A i \in DOMAIN history : history[i].timestamp <= ts
          /\ \E proba \in (IF LoadedFiles(disk) = Artifacts
                           THEN ProbaVectors(Len(disk[MODEL_PATH].classes))
                           ELSE {NoProba}) :
                Script("analyze", in, proba, svc, ts)
    /\ exported' = <<>>
    /\ UNCHANGED <<apiKey, disk>>
    /\ UNCHANGED trainerVars

\* The Clear History button
ClearHistory ==
    /\ Script("clear", <<>>, NoProba, "text", 0)
    /\ exported' = <<>>
    /\ UNCHANGED <<apiKey, disk>>
    /\ UNCHANGED trainerVars

\* A run caused by any other widget: an input box changed, a reload
Rerun ==
    /\ Script("rerun", <<>>, NoProba, "text", 0)
    /\ exported' = <<>>
    /\ UNCHANGED <<apiKey, disk>>
    /\ UNCHANGED trainerVars

\* The Download CSV button: the browser receives the payload the button
\* was rendered with, and the script runs again.
Download ==
    /\ offer # <<>>
    /\ exported' = offer
    /\ Script("download", <<>>, NoProba, "text", 0)
    /\ UNCHANGED <<apiKey, disk>>
    /\ UNCHANGED trainerVars

ServerNext ==
    \/ Analyze
    \/ ClearHistory
    \/ Rerun
    \/ Download

(***************************************************************************)
(* The CSV files of the model.                                             *)
(***************************************************************************)
C_vib == <<"v","i","b">>
C_VIBRATION == <<"V","I","B","R","A","T","I","O","N">>
C_Vibration_RMS == <<"V","i","b","r","a","t","i","o","n","_","R","M","S">>
C_Temp_C == <<"T","e","m","p","_","C">>
C_amps == <<"a","m","p","s">>
C_Motor_Current == <<"M","o","t","o","r","_","C","u","r","r","e","n","t">>
C_status == <<"s","t","a","t","u","s">>
C_id == <<"i","d">>

ColPool == {C_vib, C_VIBRATION, C_Vibration_RMS, C_Temp_C, C_amps,
            C_Motor_Current, C_status, C_id}

SeqsUpTo(S, n) == UNION {[1..k -> S] : k \in 0..n}

Row(v, t, c, l) == [vibration |-> v, temperature |-> t, current |-> c, label |-> l]

Rep(row, k) == [i \in 1..k |-> row]

L_ok == <<"o","k">>
L_Good == <<"G","o","o","d">>
L_BAD == <<"B","A","D">>
L_fail == <<"f","a","i","l">>
L_healthy == <<"h","e","a","l","t","h","y">>
L_Warning == <<"W","a","r","n","i","n","g">>
L_CRITICAL == <<"C","R","I","T","I","C","A","L">>
L_faulty == <<"f","a","u","l","t","y">>

LabelPool == {L_ok, L_Good, L_BAD, L_fail, L_healthy, L_Warning, L_CRITICAL, L_faulty}

RowH == Row(Num(1), Num(1), Num(1), L_ok)
RowW == Row(Num(7), Num(30), Num(5), L_Warning)
RowC == Row(Num(8), Num(75), Num(13), L_fail)

\* Whole CSV files on which the stratified split is feasible, and one on
\* which it is not.
DataHWC == Rep(RowH, 4) \o Rep(RowW, 4) \o Rep(RowC, 4)
DataHC == Rep(RowH, 3) \o Rep(RowC, 3)
DataWC == Rep(RowW, 3) \o Rep(RowC, 3)
DataC == Rep(RowC, 2)
DataOne == Rep(RowH, 1)

UnlabelledRows ==
    {Row(v, t, c, <<>>) :
        v \in {NaN, Num(6), Num(7)},
        t \in {NaN, Num(70), Num(71)},
        c \in {Num(12), Num(13)}}

LabelledRows == {Row(Num(1), Num(1), Num(1), l) : l \in LabelPool}

ColsUnlabelled == <<C_vib, C_Temp_C, C_amps>>
ColsLabelled == <<C_Vibration_RMS, C_Temp_C, C_Motor_Current, C_status>>

EmptyDisk == [f \in Artifacts |-> Absent]

NoPage == [op |-> "none", outcome |-> "none", loaded |-> {}, shown |-> <<>>]

InitTrainer ==
    /\ run = 1
    /\ tpc = "start"
    /\ detected = NotDetected
    /\ X = <<>>
    /\ y = <<>>
    /\ terr = NoError
    /\ fitted = <<>>
    /\ disk = EmptyDisk

InitServer ==
    /\ history = <<>>
    /\ page = NoPage
    /\ offer = <<>>
    /\ exported = <<>>

\* Column detection: every header of at most MaxCols columns of the pool.
InitDetect ==
    /\ cols \in SeqsUpTo(ColPool, MaxCols)
    /\ csv \in {DataC, DataOne}
    /\ apiKey = FALSE
    /\ InitTrainer
    /\ InitServer

\* Preparation and training: every CSV of at most MaxRows rows.
InitTrain ==
    /\ \/ /\ cols = ColsUnlabelled
          /\ csv \in SeqsUpTo(UnlabelledRows, MaxRows) \cup {DataHWC, DataHC}
       \/ /\ cols = ColsLabelled
          /\ csv \in SeqsUpTo(LabelledRows, MaxRows) \cup {DataHWC, DataHC}
    /\ apiKey = FALSE
    /\ InitTrainer
    /\ InitServer

\* The trainer and the server on one directory.
Init ==
    /\ \/ /\ cols = ColsUnlabelled
          /\ csv \in {DataHWC, DataHC, DataC}
       \/ /\ cols = ColsLabelled
          /\ csv \in {DataWC}
    /\ apiKey \in BOOLEAN
    /\ InitTrainer
    /\ InitServer

\* One training run, and the server beside it.
Next ==
    \/ TrainLoad
    \/ TrainFit
    \/ DumpModel
    \/ DumpScaler
    \/ DumpMeta
    \/ ServerNext

Spec == Init /\ [][Next]_vars

SpecDetect == InitDetect /\ [][TrainerNext]_vars

SpecTrain == InitTrain /\ [][TrainerNext]_vars

(***************************************************************************)
(* Properties of the trainer.                                              *)
(***************************************************************************)
Fields == {"vibration", "temperature", "current"}

CandidatesOf(f) ==
    IF f = "vibration" THEN COMMON_VIB
    ELSE IF f = "temperature" THEN COMMON_TEMP
    ELSE IF f = "current" THEN COMMON_CURR
    ELSE COMMON_LABEL

Loaded == tpc # "start"

EqualsIgnoringCase(a, b) == Lower(a) = Lower(b)

ContainsIgnoringCase(a, b) == Contains(Lower(a), Lower(b))

Least(S) == CHOOSE a \in S : \A b \in S : a <= b

\* The column the two-pass rule names for one candidate list.
TwoPassChoice(cs, cands) ==
    LET exactCands == {ci \in DOMAIN cands :
                          \E k \in DOMAIN cs : EqualsIgnoringCase(cands[ci], cs[k])}
        subCands == {ci \in DOMAIN cands :
                        \E k \in DOMAIN cs : ContainsIgnoringCase(cands[ci], cs[k])}
    IN  IF exactCands # {}
        THEN cs[Least({k \in DOMAIN cs :
                          EqualsIgnoringCase(cands[Least(exactCands)], cs[k])})]
        ELSE IF subCands # {}
        THEN cs[Least({k \in DOMAIN cs :
                          ContainsIgnoringCase(cands[Least(subCands)], cs[k])})]
        ELSE None

\* C1: detect_column is a two-pass case-insensitive match.  If some
\* candidate equals some column, the result is the earliest column equal to
\* the earliest such candidate, whatever earlier candidates match as
\* substrings; otherwise the earliest column containing the earliest
\* contained candidate; otherwise None.
C1_TwoPassMatch ==
    Loaded =>
        \A f \in Fields \cup {"label"} :
            detected[f] = TwoPassChoice(cols, CandidatesOf(f))

\* "vibration" is inside the first column only as a substring, "vib" equals
\* the second column, and the second column is the one detected.
C1_Witness ==
    /\ Loaded
    /\ Len(cols) >= 2
    /\ cols[1] = C_Vibration_RMS
    /\ cols[2] = C_vib
    /\ detected.vibration = C_vib

Unresolved == {f \in Fields : TwoPassChoice(cols, CandidatesOf(f)) = None}

\* C3: when one of vibration, temperature, current is unresolved, training
\* fails with a configuration error naming the unresolved fields; when all
\* three resolve, with or without a label column, no configuration error.
C3_ConfigErrorNamesUnresolved ==
    Loaded =>
        /\ Unresolved # {} =>
              /\ tpc = "failed"
              /\ terr.origin = "load_and_prepare"
              /\ terr.names = Unresolved
        /\ Unresolved = {} => terr.origin # "load_and_prepare"

Prepared == Loaded /\ terr.origin # "load_and_prepare"

Exceeds(cell, k) == cell # NaN /\ cell[1] > k * cell[2]

ScoreOf(v, t, c) ==
    (IF Exceeds(v, 6) THEN 1 ELSE 0) + (IF Exceeds(t, 70) THEN 1 ELSE 0)
    + (IF Exceeds(c, 12) THEN 1 ELSE 0)

CanonicalLabels == {S_HEALTHY, S_WARNING, S_CRITICAL}

\* C4: a label column holding, after upper-casing and the synonym table, a
\* value that is none of HEALTHY, WARNING, CRITICAL ends training with an
\* unrecognized-label error: no classifier is fitted and no artifact is
\* written from such a label series.
C4_UnrecognizedLabelError ==
    (Prepared /\ detected.label # None
        /\ \E i \in DOMAIN y : y[i] \notin CanonicalLabels) =>
        /\ fitted = <<>>
        /\ \A f \in Artifacts : disk[f].run # run
        /\ tpc \in {"done", "failed"} =>
              /\ tpc = "failed"
              /\ terr.about = "labels"

WrittenByThisRun == {f \in Artifacts : disk[f].kind # "absent" /\ disk[f].run = run}

\* C5: when train() has ended, the directory holds all three artifacts of
\* this run or none of them, and a failed run leaves no subset of its
\* artifacts inside a directory in which all three files exist.
C5_AllOrNothing ==
    tpc \in {"done", "failed"} =>
        /\ \/ WrittenByThisRun = {}
           \/ /\ WrittenByThisRun = Artifacts
              /\ \A f \in Artifacts : disk[f].kind = "ok"
        /\ tpc = "failed" =>
              ~ (/\ WrittenByThisRun # {}
                 /\ \A f \in Artifacts : disk[f].kind # "absent")

(***************************************************************************)
(* Properties of the server.                                               *)
(***************************************************************************)
Analysed == page.op = "analyze" /\ page.outcome = "rendered"

\* The label the persisted label map gives index c
LabelAt(c) == CHOOSE l \in CanonicalLabels : MapCell(disk[META_PATH].label_map, l) = <<c>>

\* The position of the greatest probability
TopPosition(p) == Least({i \in DOMAIN p : \A j \in DOMAIN p : p[j] <= p[i]})

\* C6: with any bundle the trainer can produce, the status shown is the
\* label the persisted label map gives the class of greatest probability,
\* and label_map and its inverse are mutual inverses on the three labels.
C6_StatusIsMostProbableClass ==
    Analysed =>
        /\ page.shown[1].status =
              LabelAt(page.shown[1].classes[TopPosition(page.shown[1].proba)])
        /\ \A l \in CanonicalLabels :
              inv_label_map(disk[META_PATH].label_map,
                            MapCell(disk[META_PATH].label_map, l)[1]) = l

ServerStepped == page' # page \/ history' # history

BundleWhole == \A f \in Artifacts : disk[f].kind = "ok"

\* C7: whatever the hypothesis service does, an analysis on a loaded bundle
\* is rendered with a hypothesis text, and exactly one record with its
\* inputs, status, risk and hypothesis is appended to the history.
C7_AnalysisCompletes ==
    [][(page'.op = "analyze" /\ ServerStepped /\ BundleWhole) =>
          /\ page'.outcome = "rendered"
          /\ page'.shown[1].hypothesis \in HypothesisTexts
          /\ Len(history') = Len(history) + 1
          /\ SubSeq(history', 1, Len(history)) = history
          /\ LET rec == history'[Len(history')]
                 shown == page'.shown[1]
             IN  /\ <<rec.vibration, rec.temperature, rec.current>> = shown.inputs
                 /\ rec.status = shown.status
                 /\ rec.risk = shown.risk
                 /\ rec.hypothesis = shown.hypothesis]_vars

\* An analysis whose hypothesis is the fallback of a failed service call.
C7_Witness ==
    /\ Analysed
    /\ apiKey
    /\ page.shown[1].hypothesis = FallbackError
    /\ Len(history) = 2
    /\ history[2].hypothesis = FallbackError
    /\ history[1].hypothesis = ResponseText

\* C8: after Clear History the record sequence is empty, and an export
\* made after the clear with no analysis in between holds the header row
\* alone.
C8_ExportAfterClearIsHeaderOnly ==
    /\ (page.op = "clear" /\ page.outcome = "rendered") => history = <<>>
    /\ (exported # <<>> /\ history = <<>>) =>
          /\ exported[1].rows = <<>>
          /\ exported[1].header = HistoryColumns

AnyArtifactMissing == \E f \in Artifacts : disk[f].kind = "absent"

\* C9: a run of the script that starts with an artifact missing stops at the
\* startup check: it loads nothing, shows no prediction and no hypothesis,
\* and appends nothing to the history.
C9_MissingArtifactStopsAtStartup ==
    [][(AnyArtifactMissing /\ ServerStepped) =>
          /\ page'.outcome = "stopped"
          /\ page'.loaded = {}
          /\ page'.shown = NothingShown
          /\ history' = history]_vars

\* The Analyze button pressed on a directory holding two of the three files.
C9_Witness ==
    /\ page.op = "analyze"
    /\ page.outcome = "stopped"
    /\ disk[META_PATH].kind = "absent"
    /\ disk[MODEL_PATH].kind = "ok"
    /\ disk[SCALER_PATH].kind = "ok"
    /\ history = <<>>

Cleared == page'.op = "clear" /\ page'.outcome = "rendered" /\ history' = <<>>

\* C10: between clears the history is append-only: a step other than Clear
\* History keeps every record and their order, an analysis adds exactly
\* one record at the end, and a run without Analyze changes nothing.
C10_AppendOnly ==
    [][~ Cleared =>
          /\ Len(history') >= Len(history)
          /\ SubSeq(history', 1, Len(history)) = history
          /\ (page'.op = "analyze" /\ page'.outcome = "rendered" /\ ServerStepped)
                => Len(history') = Len(history) + 1
          /\ page'.op # "analyze" => history' = history]_vars

\* Two records, the second appended after the first, then an export.
C10_Witness ==
    /\ Len(history) = 2
    /\ history[1].status # history[2].status
    /\ page.op = "download"
    /\ page.outcome = "rendered"
    /\ exported # <<>>

=============================================================================
